---- MODULE Spec2Model ----
(***************************************************************************)
(* text2file: generator registry, generation pipeline, validation          *)
(* pipeline and cleanup orchestrator.                                      *)
(*                                                                         *)
(* Strings are sequences of characters.  A character of the model is one   *)
(* of the tokens below: "." is the dot, a word such as "txt" or "TXT"      *)
(* stands for one run of letters in that letter case.  str.lower() and     *)
(* str.lstrip(".") act on these sequences as they act on Python strings.   *)
(*                                                                         *)
(* The specifications share the variables: SpecReg (registrations),        *)
(* Spec (the generation pipeline on an empty output directory),            *)
(* SpecClean (validation and cleanup of a directory of existing files),    *)
(* SpecCli (the generate command), SpecLayout and SpecDraw (the text       *)
(* layout and the drawing of utils/image_utils.py), SpecVideo              *)
(* (generate_video_file), SpecSet (ImageSetGenerator.generate), SpecMix    *)
(* (registrations interleaved with the pipelines), SpecPath (two           *)
(* generate_file calls step by step) and SpecJpg (JpgGenerator.generate).  *)
(* SpecLayout, SpecDraw, SpecVideo, SpecSet, SpecPath and SpecJpg draw the *)
(* arguments of the call at the start and apply the function.              *)
(* The external encoders and parsers (PIL, FPDF, PyPDF2, imghdr, zipfile,  *)
(* tarfile) are taken to be installed; what an encoder does with the file  *)
(* is a choice among EncoderOutcomes.                                      *)
(***************************************************************************)
EXTENDS Integers, Sequences, FiniteSets, TLC

VARIABLES
    generators,            \* generators/__init__.py  _generators
    SUPPORTED_EXTENSIONS,  \* generators/__init__.py  SUPPORTED_EXTENSIONS
    registry_generators,   \* registration.py  _registry._generators
    registry_supported,    \* registration.py  _registry._supported_extensions
    dirs,                  \* directories that exist
    files,                 \* regular files that exist: path -> file
    clock,                 \* wall clock, in seconds
    last,                  \* the most recent call and its outcome
    hist                   \* registration calls made so far

vars == <<generators, SUPPORTED_EXTENSIONS, registry_generators,
          registry_supported, dirs, files, clock, last, hist>>

regVars == <<generators, SUPPORTED_EXTENSIONS, registry_generators,
             registry_supported, hist>>

fsVars == <<dirs, files, clock>>

None == "None"

\* ---------------------------------------------------------------- bounds
MaxIdLen == 2
MaxRegs == 2
MaxClock == 1
MaxInitFiles == 2
MaxFiles == 1

\* ------------------------------------------------------------ characters
Dot == "."

IdChars == {Dot, "txt", "TXT"}

BoundedSeq(S, n) == UNION {[1..k -> S] : k \in 0..n}

Ids == BoundedSeq(IdChars, MaxIdLen)

\* str.lower(), one character
LowerChar(c) ==
    CASE c = "TXT" -> "txt"
      [] OTHER -> c

\* str.lower()
Lower(s) == [i \in 1..Len(s) |-> LowerChar(s[i])]

\* str.lstrip("."): every leading dot is removed
RECURSIVE LStripDots(_)
LStripDots(s) ==
    IF s = <<>> THEN <<>>
    ELSE IF Head(s) = Dot THEN LStripDots(Tail(s))
    ELSE s

\* -------------------------------------------------------------- registry
Gens == {"generate_text_file", "generate_zip_file", "generate_tar_file",
         "generate_image_file", "generate_pdf_file"}

\* dict.get(key) with the default None
DictGet(d, k) == IF k \in DOMAIN d THEN d[k] ELSE None

\* d[k] = v
DictSet(d, k, v) == [x \in DOMAIN d \cup {k} |-> IF x = k THEN v ELSE d[x]]

\* generators/__init__.py: ext.lower().lstrip(".")
ext_lower(ext) == LStripDots(Lower(ext))

\* registration.py: ext.lstrip(".").lower()
registry_ext(ext) == Lower(LStripDots(ext))

\* get_generator with the query only stripped, its letter case kept
get_generator_nolower(gens, extension) == DictGet(gens, LStripDots(extension))

\* get_generator with the text generator as the default of a miss
get_generator_fallback(gens, extension) ==
    IF ext_lower(extension) \in DOMAIN gens THEN gens[ext_lower(extension)]
    ELSE "generate_text_file"

\* generators/__init__.py get_generator
get_generator(gens, extension) == DictGet(gens, ext_lower(extension))

\* registration.py GeneratorRegistry.get_generator
registry_get_generator(gens, ext) == DictGet(gens, registry_ext(ext))

\* registration.py GeneratorRegistry.get_supported_extensions
get_supported_extensions == registry_supported

\* a registration loop that keeps the generator an identifier already has
RECURSIVE register_loop_keep_first(_, _, _)
register_loop_keep_first(gens, extensions, func) ==
    IF extensions = <<>> THEN gens
    ELSE register_loop_keep_first(
             IF ext_lower(Head(extensions)) \in DOMAIN gens THEN gens
             ELSE DictSet(gens, ext_lower(Head(extensions)), func),
             Tail(extensions), func)

\* the decorator's loop over the extension list
RECURSIVE register_loop(_, _, _)
register_loop(gens, extensions, func) ==
    IF extensions = <<>> THEN gens
    ELSE register_loop(DictSet(gens, ext_lower(Head(extensions)), func),
                       Tail(extensions), func)

RECURSIVE registry_register_loop(_, _, _)
registry_register_loop(gens, extensions, func) ==
    IF extensions = <<>> THEN gens
    ELSE registry_register_loop(
             DictSet(gens, registry_ext(Head(extensions)), func),
             Tail(extensions), func)

\* the generators a registration call may pass
RegGens == {"generate_text_file", "generate_pdf_file"}

\* the extension lists a registration call may pass
ExtLists == {<<x>> : x \in Ids} \cup {<<(<<"TXT">>), (<<Dot, "txt">>)>>}

Call(op, arg) ==
    [op |-> op, arg |-> arg, raised |-> FALSE, ret |-> None,
     recursive |-> FALSE, dry_run |-> FALSE, invoked |-> <<>>,
     results |-> <<>>, created |-> FALSE]

\* generators/__init__.py register_generator(extensions)(func)
register_generator(extensions, func) ==
    /\ Len(hist) < MaxRegs
    /\ generators' = register_loop(generators, extensions, func)
    /\ SUPPORTED_EXTENSIONS' =
           SUPPORTED_EXTENSIONS \cup
           {ext_lower(extensions[i]) : i \in 1..Len(extensions)}
    /\ hist' = Append(hist, [registry |-> "generators",
                             extensions |-> extensions, func |-> func])
    /\ last' = Call("register_generator", extensions)
    /\ UNCHANGED <<registry_generators, registry_supported, fsVars>>

\* a registration that stores the generator and leaves the set of
\* supported extensions as it was
registry_register_generator_map_only(extensions, func) ==
    /\ Len(hist) < MaxRegs
    /\ registry_generators' =
           registry_register_loop(registry_generators, extensions, func)
    /\ registry_supported' = registry_supported
    /\ hist' = Append(hist, [registry |-> "registration",
                             extensions |-> extensions, func |-> func])
    /\ last' = Call("registry_register_generator", extensions)
    /\ UNCHANGED <<generators, SUPPORTED_EXTENSIONS, fsVars>>

\* registration.py register_generator / register_generator_directly
registry_register_generator(extensions, func) ==
    /\ Len(hist) < MaxRegs
    /\ registry_generators' =
           registry_register_loop(registry_generators, extensions, func)
    /\ registry_supported' =
           registry_supported \cup
           {registry_ext(extensions[i]) : i \in 1..Len(extensions)}
    /\ hist' = Append(hist, [registry |-> "registration",
                             extensions |-> extensions, func |-> func])
    /\ last' = Call("registry_register_generator", extensions)
    /\ UNCHANGED <<generators, SUPPORTED_EXTENSIONS, fsVars>>

\* The registry of generators/__init__.py once the package is imported:
\* the text generator (line 168), archives.py and images.py.
InitGenerators ==
    (<<"txt">> :> "generate_text_file") @@
    (<<"json">> :> "generate_text_file") @@
    (<<"csv">> :> "generate_text_file") @@
    (<<"zip">> :> "generate_zip_file") @@
    (<<"tar">> :> "generate_tar_file") @@
    (<<"tar", Dot, "gz">> :> "generate_tar_file") @@
    (<<"png">> :> "generate_image_file")

InitRegistry ==
    /\ generators = InitGenerators
    /\ SUPPORTED_EXTENSIONS = DOMAIN InitGenerators
    /\ registry_generators = <<>>
    /\ registry_supported = {}
    /\ hist = <<>>

InitReg ==
    /\ InitRegistry
    /\ dirs = {}
    /\ files = <<>>
    /\ clock = 0
    /\ last = Call("init", <<>>)

NextReg ==
    \/ \E e \in ExtLists, g \in RegGens : register_generator(e, g)
    \/ \E e \in ExtLists, g \in RegGens : registry_register_generator(e, g)

SpecReg == InitReg /\ [][NextReg]_vars

\* ------------------------------------------------------------ filesystem
\* "out/sub" is a subdirectory of "out"
Dirs == {"out", "out/sub"}

\* a directory with its ancestors (mkdir(parents=True))
WithParents(d) == IF d = "out/sub" THEN {"out", "out/sub"} ELSE {d}

\* the directories of the subtree rooted at d
Subtree(d) == {e \in Dirs : d \in WithParents(e)}

\* a file name that keeps only the last suffix of the extension
PathOf_last_suffix(dir, prefix, ts, ext) ==
    [dir |-> dir, prefix |-> prefix, ts |-> ts,
     ext |-> IF \A i \in 1..Len(ext) : ext[i] # Dot THEN ext
             ELSE SubSeq(ext, 1 + CHOOSE i \in 1..Len(ext) :
                                     /\ ext[i] = Dot
                                     /\ \A j \in (i+1)..Len(ext) : ext[j] # Dot,
                         Len(ext))]

\* The file named f"{prefix}_{ts}.{ext}" in directory dir.
PathOf(dir, prefix, ts, ext) ==
    [dir |-> dir, prefix |-> prefix, ts |-> ts, ext |-> ext]

\* the characters after the last dot of the file name
RECURSIVE AfterLastDot(_)
AfterLastDot(ext) ==
    IF \A i \in 1..Len(ext) : ext[i] # Dot THEN ext
    ELSE AfterLastDot(Tail(ext))

\* os.path.splitext(file_path)[1]
splitext(p) == <<Dot>> \o AfterLastDot(p.ext)

\* pathlib's output_path.suffix: empty for a name that ends with a dot
suffix(p) == IF AfterLastDot(p.ext) = <<>> THEN <<>> ELSE splitext(p)

\* A file: kind "raw" holds the bytes data; "zip", "tar", "image" and "pdf"
\* are containers written by the external encoders around the payload
\* data, whole when the encoder finished; "dir" is a directory entry.
\* Bytes: "a" a letter, "1" a digit, " " a space, "cr" and "lf" the line
\* ends, "ctl" a control character below 32, "bad" a byte sequence that
\* is not UTF-8.
File(kind, data, whole) ==
    [kind |-> kind, data |-> data, whole |-> whole,
     readable |-> TRUE, undeletable |-> FALSE]

Contains(data, c) == \E i \in 1..Len(data) : data[i] = c

\* Path.exists / os.path.exists
exists(fs, p) == p \in DOMAIN fs

\* Path.is_file / os.path.isfile
is_file(fs, p) == p \in DOMAIN fs /\ fs[p].kind # "dir"

\* Path.unlink
unlink(fs, p) == [q \in DOMAIN fs \ {p} |-> fs[q]]

\* ------------------------------------------------------------ validators
ValidationResult(is_valid, message) ==
    [raised |-> FALSE, is_valid |-> is_valid, message |-> message,
     details |-> None, note |-> ""]

\* an exception that leaves the validator
Raised(exc) ==
    [raised |-> TRUE, is_valid |-> FALSE, message |-> exc,
     details |-> None, note |-> ""]

\* FileValidator._validate: the generic check, every exception caught
FileValidator(f) ==
    IF ~f.readable
    THEN ValidationResult(FALSE, "Error validating file")
    ELSE IF f.kind = "raw" /\ f.data = <<>>
    THEN ValidationResult(FALSE, "File is empty")
    ELSE ValidationResult(TRUE, "File is valid")

\* TextFileValidator with the carriage return left out of the accepted
\* control characters
TextFileValidator_no_cr(f) ==
    IF ~f.readable THEN Raised("PermissionError")
    ELSE IF f.kind # "raw" \/ Contains(f.data, "bad")
    THEN ValidationResult(FALSE, "File is not valid UTF-8 text")
    ELSE IF Contains(f.data, "ctl") \/ Contains(f.data, "cr")
    THEN ValidationResult(FALSE, "File contains non-printable characters")
    ELSE ValidationResult(TRUE, "Text file is valid")

\* TextFileValidator._validate: only UnicodeDecodeError is caught
TextFileValidator(f) ==
    IF ~f.readable THEN Raised("PermissionError")
    ELSE IF f.kind # "raw" \/ Contains(f.data, "bad")
    THEN ValidationResult(FALSE, "File is not valid UTF-8 text")
    ELSE IF Contains(f.data, "ctl")
    THEN ValidationResult(FALSE, "File contains non-printable characters")
    ELSE ValidationResult(TRUE, "Text file is valid")

\* ImageFileValidator._validate: imghdr.what opens the file outside of
\* the inner try, only ImportError is caught around it
ImageFileValidator(f) ==
    IF ~f.readable THEN Raised("PermissionError")
    ELSE IF f.kind # "image"
    THEN ValidationResult(FALSE, "File is not a recognized image format")
    ELSE IF ~f.whole
    THEN ValidationResult(FALSE, "Invalid image file")
    ELSE ValidationResult(TRUE, "Valid image")

\* PDFFileValidator._validate: open() is outside of the inner try
PDFFileValidator(f) ==
    IF ~f.readable THEN Raised("PermissionError")
    ELSE IF f.kind # "pdf" \/ ~f.whole
    THEN ValidationResult(FALSE, "Invalid PDF file")
    ELSE ValidationResult(TRUE, "Valid PDF")

VALIDATORS ==
    (<<Dot, "txt">> :> "TextFileValidator") @@
    (<<Dot, "csv">> :> "TextFileValidator") @@
    (<<Dot, "json">> :> "TextFileValidator") @@
    (<<Dot, "xml">> :> "TextFileValidator") @@
    (<<Dot, "jpg">> :> "ImageFileValidator") @@
    (<<Dot, "jpeg">> :> "ImageFileValidator") @@
    (<<Dot, "png">> :> "ImageFileValidator") @@
    (<<Dot, "gif">> :> "ImageFileValidator") @@
    (<<Dot, "bmp">> :> "ImageFileValidator") @@
    (<<Dot, "pdf">> :> "PDFFileValidator")

\* a lookup that falls back to the text validator
get_validator_text_fallback(p) ==
    LET ext == Lower(splitext(p)) IN
    IF ext \in DOMAIN VALIDATORS THEN VALIDATORS[ext]
    ELSE "TextFileValidator"

\* get_validator: VALIDATORS.get(ext, FileValidator)
get_validator(p) ==
    LET ext == Lower(splitext(p)) IN
    IF ext \in DOMAIN VALIDATORS THEN VALIDATORS[ext] ELSE "FileValidator"

\* cls._validate(file_path)
validate(validator, f) ==
    CASE validator = "TextFileValidator" -> TextFileValidator(f)
      [] validator = "ImageFileValidator" -> ImageFileValidator(f)
      [] validator = "PDFFileValidator" -> PDFFileValidator(f)
      [] OTHER -> FileValidator(f)

\* validate_file: get_validator, then FileValidator.validate_file
validate_file(fs, p) ==
    LET validator == get_validator(p) IN
    IF ~exists(fs, p) THEN ValidationResult(FALSE, "File does not exist")
    ELSE IF ~is_file(fs, p) THEN ValidationResult(FALSE, "Path is not a file")
    ELSE validate(validator, fs[p])

\* ------------------------------------------------------------ generators
\* Content characters: "a" a letter, "1" a digit, " " a space, "ctl" a
\* control character below 32, "sur" a lone surrogate, which str accepts
\* and the UTF-8 encoder rejects, "deep" a run of "[" longer than the
\* interpreter's recursion limit.
ContentChars == {"a", "1", " ", "ctl", "sur", "deep"}

\* the contents a caller may pass
Contents ==
    {<<>>, <<"a">>, <<"1">>, <<" ", "1">>, <<" ">>, <<"ctl">>,
     <<"a", "sur">>, <<"deep">>}

\* what a generator call did: raised or returned ret, and the file it left
\* at output_path, if it created one
Outcome(raised, created, file, ret) ==
    [raised |-> raised, created |-> created, file |-> file, ret |-> ret]

NoFile == File("raw", <<>>, FALSE)

\* with open(output_path, 'w', encoding='utf-8') as f: f.write(data).
\* open() creates or truncates the file, write() encodes the whole string
\* and raises UnicodeEncodeError before any byte is written.
write_text(output_path, data) ==
    IF Contains(data, "sur")
    THEN Outcome(TRUE, TRUE, File("raw", <<>>, TRUE), None)
    ELSE Outcome(FALSE, TRUE, File("raw", data, TRUE), output_path)

\* str.strip() of a content without line breaks
RECURSIVE lstrip(_)
lstrip(s) ==
    IF s = <<>> THEN <<>>
    ELSE IF Head(s) = " " THEN lstrip(Tail(s))
    ELSE s

RECURSIVE rstrip(_)
rstrip(s) ==
    IF s = <<>> THEN <<>>
    ELSE IF s[Len(s)] = " " THEN rstrip(SubSeq(s, 1, Len(s) - 1))
    ELSE s

strip(s) == rstrip(lstrip(s))

\* json.loads accepts these contents: a number with white space around
\* it, which has no leading zero to reject as the only digit is "1"
json_loads_ok(content) ==
    /\ strip(content) # <<>>
    /\ \A i \in 1..Len(strip(content)) : strip(content)[i] = "1"

\* json.loads leaves with a RecursionError, which is no JSONDecodeError,
\* for brackets nested deeper than the recursion limit
json_loads_recursion(content) == Contains(content, "deep")

\* json.dump(json.loads(content), f, indent=2): the number alone
json_dump(content) == strip(content)

\* csv.writer(f).writerows(rows) for rows = [line.split(',') for line in
\* content.split('\n') if line.strip()]: a content without comma, quote
\* and line break is one unquoted field ended by "\r\n", or no row at all
csv_rows(content) ==
    IF strip(content) = <<>> THEN <<>> ELSE content \o <<"cr", "lf">>

\* generators/text/__init__.py generate_text_file
generate_text_file(content, output_path) ==
    LET ext == Lower(Tail(suffix(output_path))) IN
    IF suffix(output_path) # <<>> /\
       Lower(suffix(output_path)) \in {<<Dot, "md">>, <<Dot, "markdown">>}
    THEN write_text(output_path, content)
    ELSE IF suffix(output_path) # <<>> /\ ext = <<"json">> /\
            json_loads_recursion(content)
    THEN Outcome(TRUE, FALSE, NoFile, None)
    ELSE IF suffix(output_path) # <<>> /\ ext = <<"json">> /\
            json_loads_ok(content)
    THEN write_text(output_path, json_dump(content))
    ELSE IF suffix(output_path) # <<>> /\ ext = <<"csv">> /\
            ~write_text(output_path, csv_rows(content)).raised
    THEN write_text(output_path, csv_rows(content))
    ELSE write_text(output_path, content)

\* archives.py _create_sample_files: write_text(content) into a temporary
\* directory, before the archive is opened
create_sample_files_ok(content) == ~Contains(content, "sur")

\* archives.py generate_zip_file
generate_zip_file(content, output_path) ==
    IF ~create_sample_files_ok(content)
    THEN Outcome(TRUE, FALSE, NoFile, None)
    ELSE Outcome(FALSE, TRUE, File("zip", content, TRUE), output_path)

\* archives.py generate_tar_file
generate_tar_file(content, output_path) ==
    IF ~create_sample_files_ok(content)
    THEN Outcome(TRUE, FALSE, NoFile, None)
    ELSE Outcome(FALSE, TRUE, File("tar", content, TRUE), output_path)

\* What the external encoder (PIL's Image.save, FPDF.output) does: it
\* finishes, fails before it opens the file, or fails while writing it.
EncoderOutcomes == {"ok", "raise", "partial"}

encode(kind, content, output_path, enc) ==
    CASE enc = "ok" ->
             Outcome(FALSE, TRUE, File(kind, content, TRUE), output_path)
      [] enc = "raise" -> Outcome(TRUE, FALSE, NoFile, None)
      [] OTHER -> Outcome(TRUE, TRUE, File(kind, content, FALSE), None)

\* images.py generate_image_file: every exception becomes IOError
generate_image_file(content, output_path, enc) ==
    encode("image", content, output_path, enc)

\* pdf.py generate_pdf_file
generate_pdf_file(content, output_path, enc) ==
    encode("pdf", content, output_path, enc)

\* generator(content, filepath, **{})
invoke(generator, content, filepath, enc) ==
    CASE generator = "generate_text_file" ->
             generate_text_file(content, filepath)
      [] generator = "generate_zip_file" ->
             generate_zip_file(content, filepath)
      [] generator = "generate_tar_file" ->
             generate_tar_file(content, filepath)
      [] generator = "generate_image_file" ->
             generate_image_file(content, filepath, enc)
      [] OTHER -> generate_pdf_file(content, filepath, enc)

\* the generators whose outcome depends on the external encoder
Encoders == {"generate_image_file", "generate_pdf_file"}

\* ------------------------------------------------------------- pipeline
Prefixes == {"generated"}

\* the output directory a caller may pass
OutputDirs == {"out/sub"}

\* the extensions a caller may ask for
Extensions ==
    {<<Dot, "TXT">>, <<"json">>, <<"csv">>, <<"zip">>,
     <<"tar", Dot, "gz">>, <<"png">>, <<"xyz">>}

\* generators/__init__.py generate_file(content, extension, output_dir,
\* prefix), called when the clock reads `clock`
generate_file(content, extension, output_dir, prefix, enc) ==
    LET ext == ext_lower(extension)
        generator == get_generator(generators, ext)
        filepath == PathOf(output_dir, prefix, clock, ext)
        args == [content |-> content, extension |-> extension,
                 output_dir |-> output_dir, prefix |-> prefix,
                 filepath |-> filepath]
        run == invoke(generator, content, filepath, enc)
    IN
    /\ filepath \in DOMAIN files \/ Cardinality(DOMAIN files) < MaxFiles
    /\ IF generator = None
       THEN /\ last' = [Call("generate_file", args) EXCEPT
                           !.raised = TRUE, !.ret = "ValueError"]
            /\ UNCHANGED <<dirs, files>>
       ELSE /\ dirs' = dirs \cup WithParents(output_dir)
            /\ files' = IF run.created
                        THEN DictSet(files, filepath, run.file)
                        ELSE files
            /\ last' = [Call("generate_file", args) EXCEPT
                           !.raised = run.raised, !.ret = run.ret,
                           !.invoked = <<generator>>,
                           !.created = run.created]
    /\ UNCHANGED <<regVars, clock>>

\* a call of generate_file
GenerateFile ==
    \E content \in Contents, extension \in Extensions,
       output_dir \in OutputDirs, prefix \in Prefixes :
        \/ generate_file(content, extension, output_dir, prefix, "ok")
        \/ /\ get_generator(generators, extension) \in Encoders
           /\ \E enc \in EncoderOutcomes \ {"ok"} :
                 generate_file(content, extension, output_dir, prefix, enc)

\* --------------------------------------------------------------- cleanup
\* the injective sequences over S: the orders in which glob may yield S
Orders(S) ==
    {o \in [1..Cardinality(S) -> S] :
        \A i, j \in 1..Cardinality(S) : i # j => o[i] # o[j]}

\* glob with the pattern '**/*' whatever recursive says
glob_always_recursive(fs, directory, recursive) ==
    {p \in DOMAIN fs : p.dir \in Subtree(directory)}

\* path.glob('**/*' if recursive else '*')
glob(fs, directory, recursive) ==
    {p \in DOMAIN fs :
        IF recursive THEN p.dir \in Subtree(directory)
        ELSE p.dir = directory}

\* the cleanup loop with the test of result.is_valid left out
RECURSIVE cleanup_loop_unconditional(_, _, _)
cleanup_loop_unconditional(order, fs, results) ==
    IF order = <<>>
    THEN [files |-> fs, results |-> results, raised |-> FALSE]
    ELSE
        LET file_path == Head(order)
            result == validate_file(fs, file_path)
        IN
        IF ~is_file(fs, file_path)
        THEN cleanup_loop_unconditional(Tail(order), fs, results)
        ELSE IF result.raised
        THEN [files |-> fs, results |-> <<>>, raised |-> TRUE]
        ELSE IF fs[file_path].undeletable
        THEN cleanup_loop_unconditional(Tail(order), fs,
                 DictSet(results, file_path,
                         [result EXCEPT !.note = "(failed to delete)"]))
        ELSE cleanup_loop_unconditional(Tail(order), unlink(fs, file_path),
                 DictSet(results, file_path,
                         [result EXCEPT !.note = "(deleted)"]))

\* the cleanup loop with "(deleted)" noted whether or not unlink succeeded
RECURSIVE cleanup_loop_note_first(_, _, _)
cleanup_loop_note_first(order, fs, results) ==
    IF order = <<>>
    THEN [files |-> fs, results |-> results, raised |-> FALSE]
    ELSE
        LET file_path == Head(order)
            result == validate_file(fs, file_path)
        IN
        IF ~is_file(fs, file_path)
        THEN cleanup_loop_note_first(Tail(order), fs, results)
        ELSE IF result.raised
        THEN [files |-> fs, results |-> <<>>, raised |-> TRUE]
        ELSE IF result.is_valid
        THEN cleanup_loop_note_first(Tail(order), fs,
                                     DictSet(results, file_path, result))
        ELSE cleanup_loop_note_first(Tail(order),
                 IF fs[file_path].undeletable THEN fs
                 ELSE unlink(fs, file_path),
                 DictSet(results, file_path,
                         [result EXCEPT !.note = "(deleted)"]))

\* the cleanup loop with the message of a deleted file's result replaced
\* instead of extended
RECURSIVE cleanup_loop_replaces_message(_, _, _)
cleanup_loop_replaces_message(order, fs, results) ==
    IF order = <<>>
    THEN [files |-> fs, results |-> results, raised |-> FALSE]
    ELSE
        LET file_path == Head(order)
            result == validate_file(fs, file_path)
        IN
        IF ~is_file(fs, file_path)
        THEN cleanup_loop_replaces_message(Tail(order), fs, results)
        ELSE IF result.raised
        THEN [files |-> fs, results |-> <<>>, raised |-> TRUE]
        ELSE IF result.is_valid
        THEN cleanup_loop_replaces_message(Tail(order), fs,
                 DictSet(results, file_path, result))
        ELSE IF fs[file_path].undeletable
        THEN cleanup_loop_replaces_message(Tail(order), fs,
                 DictSet(results, file_path,
                         [result EXCEPT !.note = "(failed to delete)"]))
        ELSE cleanup_loop_replaces_message(Tail(order),
                 unlink(fs, file_path),
                 DictSet(results, file_path,
                         [result EXCEPT !.message = "File deleted",
                                        !.note = "(deleted)"]))

\* the loop of cleanup_invalid_files over the paths in glob order; an
\* exception of validate_file ends the loop and the call
RECURSIVE cleanup_loop(_, _, _)
cleanup_loop(order, fs, results) ==
    IF order = <<>>
    THEN [files |-> fs, results |-> results, raised |-> FALSE]
    ELSE
        LET file_path == Head(order)
            result == validate_file(fs, file_path)
        IN
        IF ~is_file(fs, file_path)
        THEN cleanup_loop(Tail(order), fs, results)
        ELSE IF result.raised
        THEN [files |-> fs, results |-> <<>>, raised |-> TRUE]
        ELSE IF result.is_valid
        THEN cleanup_loop(Tail(order), fs,
                          DictSet(results, file_path, result))
        ELSE IF fs[file_path].undeletable
        THEN cleanup_loop(Tail(order), fs,
                 DictSet(results, file_path,
                         [result EXCEPT !.note = "(failed to delete)"]))
        ELSE cleanup_loop(Tail(order), unlink(fs, file_path),
                 DictSet(results, file_path,
                         [result EXCEPT !.note = "(deleted)"]))

\* cleanup_invalid_files(directory, recursive), glob yielding in order
cleanup_invalid_files(op, directory, recursive, dry_run, order) ==
    LET run == cleanup_loop(order, files, <<>>) IN
    /\ files' = run.files
    /\ last' = [Call(op, directory) EXCEPT
                   !.recursive = recursive, !.dry_run = dry_run,
                   !.raised = run.raised, !.results = run.results]
    /\ UNCHANGED <<regVars, dirs, clock>>

\* a call of cleanup_invalid_files
CleanupInvalidFiles ==
    \E directory \in Dirs, recursive \in BOOLEAN :
    \E order \in Orders(glob(files, directory, recursive)) :
        cleanup_invalid_files("cleanup_invalid_files", directory, recursive,
                              FALSE, order)

\* cli.py cleanup: the command runs cleanup_invalid_files whatever
\* --dry-run says; click rejects a path that is not a directory
cleanup ==
    \E path \in dirs, recursive \in BOOLEAN, dry_run \in BOOLEAN :
    \E order \in Orders(glob(files, path, recursive)) :
        cleanup_invalid_files("cleanup", path, recursive, dry_run, order)

\* a call of validate_file
ValidateFile(p) ==
    /\ last' = [Call("validate_file", p) EXCEPT
                   !.raised = validate_file(files, p).raised,
                   !.ret = validate_file(files, p)]
    /\ UNCHANGED <<regVars, fsVars>>

\* The files a directory may hold before the program runs.
FixturePaths ==
    {PathOf("out", "generated", 0, e) :
        e \in {<<"txt">>, <<"png">>, <<"xyz">>}}
    \cup {PathOf("out/sub", "generated", 0, e) :
        e \in {<<"TXT">>, <<"xyz">>}}

FixtureFiles ==
    {File("raw", data, TRUE) :
        data \in {<<>>, <<"a">>, <<"ctl">>, <<"bad">>}}
    \cup {[File("raw", <<"ctl">>, TRUE) EXCEPT !.undeletable = TRUE]}
    \cup {[File("raw", <<"a">>, TRUE) EXCEPT
              !.readable = FALSE, !.undeletable = u] : u \in BOOLEAN}
    \cup {File("image", <<"a">>, TRUE), File("dir", <<>>, TRUE)}

InitClean ==
    /\ InitRegistry
    /\ dirs = Dirs
    /\ \E P \in SUBSET FixturePaths :
          /\ Cardinality(P) <= MaxInitFiles
          /\ files \in [P -> FixtureFiles]
    /\ clock = 0
    /\ last = Call("init", <<>>)

NextClean ==
    \/ CleanupInvalidFiles
    \/ cleanup
    \/ \E p \in FixturePaths : ValidateFile(p)

SpecClean == InitClean /\ [][NextClean]_vars

\* datetime.now() moves on by a second
Tick ==
    /\ clock < MaxClock
    /\ clock' = clock + 1
    /\ UNCHANGED <<regVars, dirs, files, last>>

Init ==
    /\ InitRegistry
    /\ dirs \in {{}, {"out"}}
    /\ files = <<>>
    /\ clock = 0
    /\ last = Call("init", <<>>)

Next ==
    \/ GenerateFile
    \/ Tick

Spec == Init /\ [][Next]_vars

\* ---------------------------------------------------------------- claims
\* the normalized form of an identifier: lower-case, leading dots stripped
NormalForm(x) == LStripDots(Lower(x))

\* -------------------------------------------------------------------- C1
\* C1: when generate_file raises after its generator created a file at the
\* destination path, no file exists at that path.
C1_NoPartialFileAfterFailure ==
    (last.op = "generate_file" /\ last.raised /\ last.created)
    => ~exists(files, last.arg.filepath)

\* -------------------------------------------------------------------- C2
\* C2: generate_file for an identifier whose normalized form has no
\* registered generator raises ValueError, invokes no generator and leaves
\* the files and the directories as they were.
C2_UnsupportedCreatesNothing ==
    [][(last'.op = "generate_file" /\
        NormalForm(last'.arg.extension) \notin DOMAIN generators)
       => (/\ last'.raised
           /\ last'.ret = "ValueError"
           /\ last'.invoked = <<>>
           /\ files' = files
           /\ dirs' = dirs)]_vars

\* "xyz" was rejected and the output directory was not even created
C2_Witness ==
    /\ last.op = "generate_file"
    /\ last.arg.extension = <<"xyz">>
    /\ last.raised
    /\ last.ret = "ValueError"
    /\ dirs = {}
    /\ files = <<>>

\* -------------------------------------------------------------------- C9
\* the file name's extension has a registered validator
HasValidator(p) == Lower(splitext(p)) \in DOMAIN VALIDATORS

\* C9 as stated: for every content, the file a successful generate_file
\* returns is reported valid by validate_file, for every format that has
\* a generator and a validator.
C9_RoundTripEveryContent ==
    (last.op = "generate_file" /\ ~last.raised /\ HasValidator(last.ret))
    => (/\ ~validate_file(files, last.ret).raised
        /\ validate_file(files, last.ret).is_valid)

\* C9 as amended: the round trip holds for every content that has no
\* control character below 32 (other than tab, line feed and carriage
\* return).
C9_RoundTripPrintable ==
    (/\ last.op = "generate_file"
     /\ ~last.raised
     /\ HasValidator(last.ret)
     /\ ~Contains(last.arg.content, "ctl"))
    => (/\ ~validate_file(files, last.ret).raised
        /\ validate_file(files, last.ret).is_valid)

\* a csv file was generated, holds the row with its line end, and is valid
C9_Witness ==
    /\ last.op = "generate_file"
    /\ ~last.raised
    /\ last.arg.extension = <<"csv">>
    /\ last.arg.content = <<"a">>
    /\ files[last.ret].data = <<"a", "cr", "lf">>
    /\ validate_file(files, last.ret).is_valid

\* -------------------------------------------------------------------- C3
\* C3: validate_file never raises, it returns a ValidationResult.
C3_ValidateNeverRaises ==
    last.op = "validate_file" => ~last.raised

\* ------------------------------------------------------ cleanup, C4 - C8
CleanupOps == {"cleanup_invalid_files", "cleanup"}

\* the regular files a cleanup call enumerates
Enumerated(fs, directory, recursive) ==
    {p \in DOMAIN fs :
        /\ fs[p].kind # "dir"
        /\ IF recursive THEN p.dir \in Subtree(directory)
           ELSE p.dir = directory}

\* C4: no step removes a file that validate_file reports valid.
C4_OnlyInvalidDeleted ==
    [][\A p \in DOMAIN files \ DOMAIN files' :
          /\ ~validate_file(files, p).raised
          /\ ~validate_file(files, p).is_valid]_vars

\* a cleanup deleted an invalid file and kept a valid one
C4_Witness ==
    /\ last.op = "cleanup_invalid_files"
    /\ \E p \in DOMAIN last.results :
          last.results[p].note = "(deleted)" /\ ~exists(files, p)
    /\ \E q \in DOMAIN last.results :
          last.results[q].is_valid /\ exists(files, q)

\* C5: a cleanup call records every enumerated file whose own validation
\* and deletion do not fail, and deletes it when it is invalid, whatever
\* fails on another file.
C5_NoAbortOnSingleFile ==
    [][last'.op \in CleanupOps =>
          \A p \in Enumerated(files, last'.arg, last'.recursive) :
              ~validate_file(files, p).raised =>
                  /\ p \in DOMAIN last'.results
                  /\ (~validate_file(files, p).is_valid /\
                      ~files[p].undeletable) => ~exists(files', p)]_vars

\* C6: the cleanup command with --dry-run leaves the files as they were.
C6_DryRunDeletesNothing ==
    [][(last'.op = "cleanup" /\ last'.dry_run) => files' = files]_vars

\* C7: a cleanup call that returns has one entry for every enumerated
\* regular file, and the entry tells what happened to the file.
C7_TruthfulResults ==
    [][(last'.op \in CleanupOps /\ ~last'.raised) =>
          /\ DOMAIN last'.results =
                 Enumerated(files, last'.arg, last'.recursive)
          /\ \A p \in DOMAIN last'.results :
                LET r == last'.results[p] IN
                /\ r.is_valid => (exists(files', p) /\ r.note = "")
                /\ (~r.is_valid /\ r.note = "(deleted)")
                       => ~exists(files', p)
                /\ (~r.is_valid /\ r.note = "(failed to delete)")
                       => exists(files', p)]_vars

\* one file was deleted and another could not be deleted
C7_Witness ==
    /\ last.op = "cleanup_invalid_files"
    /\ ~last.raised
    /\ \E p, q \in DOMAIN last.results :
          /\ last.results[p].note = "(deleted)" /\ ~exists(files, p)
          /\ last.results[q].note = "(failed to delete)" /\ exists(files, q)

\* C8: without recursive a cleanup call touches and reports only the
\* regular files directly in the directory; with recursive a call that
\* returns reports every regular file of the subtree; no call touches a
\* file outside of the subtree, a directory entry or a directory.
C8_RecursiveScope ==
    [][last'.op \in CleanupOps =>
          /\ \A p \in DOMAIN files :
                (\/ p.dir \notin Subtree(last'.arg)
                 \/ (~last'.recursive /\ p.dir # last'.arg)
                 \/ files[p].kind = "dir")
                => (/\ exists(files', p)
                    /\ files'[p] = files[p]
                    /\ p \notin DOMAIN last'.results)
          /\ (last'.recursive /\ ~last'.raised) =>
                \A p \in DOMAIN files :
                    (p.dir \in Subtree(last'.arg) /\ files[p].kind # "dir")
                    => p \in DOMAIN last'.results
          /\ dirs' = dirs]_vars

\* a cleanup of "out" without recursive deleted a file of "out" and left
\* an invalid file of "out/sub" alone
C8_Witness ==
    /\ last.op = "cleanup_invalid_files"
    /\ last.arg = "out"
    /\ ~last.recursive
    /\ \E p \in DOMAIN last.results : last.results[p].note = "(deleted)"
    /\ \E q \in DOMAIN files :
          /\ q.dir = "out/sub"
          /\ ~validate_file(files, q).is_valid
          /\ ~files[q].undeletable
          /\ files[q].kind # "dir"

\* ------------------------------------------------------------------- C10
\* the lookup of the registry that a registration call wrote to
LookupIn(registry, y) ==
    IF registry = "generators" THEN get_generator(generators, y)
    ELSE registry_get_generator(registry_generators, y)

\* the identifiers passed to a registry so far
PassedTo(registry) ==
    UNION {{hist[i].extensions[j] : j \in 1..Len(hist[i].extensions)} :
           i \in {k \in 1..Len(hist) : hist[k].registry = registry}}

\* the normalized identifiers a registry holds from the start
HeldAtStart(registry) ==
    IF registry = "generators" THEN DOMAIN InitGenerators ELSE {}

\* C10: right after a registration call with identifier x and generator g,
\* the lookup of the same registry returns g for every y whose normalized
\* form is that of x, whatever its letter case and leading dots; and a y
\* whose normalized form was never registered is looked up as None.
C10_NormalizedLookup ==
    /\ hist # <<>> =>
          LET h == hist[Len(hist)] IN
          \A j \in 1..Len(h.extensions), y \in Ids :
              NormalForm(y) = NormalForm(h.extensions[j]) =>
                  LookupIn(h.registry, y) = h.func
    /\ \A registry \in {"generators", "registration"}, y \in Ids :
          (/\ NormalForm(y) \notin HeldAtStart(registry)
           /\ \A x \in PassedTo(registry) : NormalForm(x) # NormalForm(y))
          => LookupIn(registry, y) = None

\* a registration under ".TXT" is found under "txt", and "txt." is not
C10_Witness ==
    /\ hist # <<>>
    /\ hist[Len(hist)].registry = "registration"
    /\ hist[Len(hist)].extensions = << <<Dot, "TXT">> >>
    /\ hist[Len(hist)].func = "generate_pdf_file"
    /\ registry_get_generator(registry_generators, <<"txt">>) = "generate_pdf_file"
    /\ get_generator(generators, <<"TXT">>) = "generate_text_file"
    /\ registry_get_generator(registry_generators, <<"txt", Dot>>) = None

\* ------------------------------------------------------------------- C11
\* C11: every identifier that a registry reports as registered is resolved
\* by get_generator of generators/__init__.py, the lookup of generate_file.
C11_RegisteredIsResolvable ==
    \A y \in SUPPORTED_EXTENSIONS \cup get_supported_extensions :
        get_generator(generators, y) # None

\* ------------------------------------------------------------------- C12
\* Path.name of a generated file, f"{prefix}_{timestamp}.{ext}"
name(p) == <<p.prefix, "_", ToString(p.ts), Dot>> \o p.ext

\* str.endswith
endswith(s, t) ==
    /\ Len(t) <= Len(s)
    /\ SubSeq(s, Len(s) - Len(t) + 1, Len(s)) = t

\* C12: a generate_file call that returns, returns the path that the
\* generator registered for the identifier reported, a regular file exists
\* at that path, and the file's name ends with "." followed by the
\* normalized identifier, every suffix of "tar.gz" included.
C12_ReturnsGeneratedPath ==
    (last.op = "generate_file" /\ ~last.raised) =>
        LET f == last.arg.extension
            generator == get_generator(generators, f)
        IN
        /\ generator # None
        /\ last.invoked = <<generator>>
        /\ last.ret = invoke(generator, last.arg.content,
                             last.arg.filepath, "ok").ret
        /\ is_file(files, last.ret)
        /\ endswith(name(last.ret), <<Dot>> \o NormalForm(f))

\* a "tar.gz" file was generated and its name ends with ".tar.gz"
C12_Witness ==
    /\ last.op = "generate_file"
    /\ ~last.raised
    /\ last.arg.extension = <<"tar", Dot, "gz">>
    /\ is_file(files, last.ret)
    /\ endswith(name(last.ret), <<Dot, "tar", Dot, "gz">>)

\* ------------------------------------------------- cli.py generate command
MaxExts == 2

\* the contents and extensions given on the command lines considered: a
\* content that every generator accepts and one that the text encoder
\* rejects; supported and unsupported extensions
CliContents == {<<"a">>, <<"a", "sur">>}
CliExtensions == {<<Dot, "TXT">>, <<"zip">>, <<"png">>, <<"xyz">>}

\* the extension arguments of one command line (nargs=-1, required)
ExtArgs == BoundedSeq(CliExtensions, MaxExts) \ {<<>>}

\* cli.py 159-161: the requested extensions that are not supported
invalid_exts(extensions) ==
    SelectSeq(extensions, LAMBDA ext : ext_lower(ext) \notin SUPPORTED_EXTENSIONS)

\* cli.py 169-176: the loop over the extensions; every generate_file call
\* runs inside try/except Exception, and a path is appended on success.
\* acc holds the files, the generate_file calls made and generated_files.
RECURSIVE generate_loop(_, _, _, _, _, _)
generate_loop(extensions, content, output_dir, prefix, enc, acc) ==
    IF extensions = <<>> THEN acc
    ELSE
      LET ext == ext_lower(Head(extensions))
          generator == get_generator(acc.generators, ext)
          filepath == PathOf(output_dir, prefix, acc.clock, ext)
          run == invoke(generator, content, filepath, enc)
          raised == generator = None \/ run.raised
          next ==
            [acc EXCEPT
               !.files = IF generator # None /\ run.created
                         THEN DictSet(acc.files, filepath, run.file)
                         ELSE acc.files,
               !.invoked = Append(acc.invoked,
                                  [extension |-> Head(extensions),
                                   raised |-> raised]),
               !.generated_files =
                   IF raised THEN acc.generated_files
                   ELSE Append(acc.generated_files, run.ret)]
      IN generate_loop(Tail(extensions), content, output_dir, prefix, enc,
                       next)

\* the exit status of a command: click exits with 2 on a UsageError and
\* with 0 when the command function returns
exit_code(call) == IF call.raised THEN 2 ELSE 0

\* cli.py generate(content, extensions, output_dir, prefix)
generate(content, extensions, output_dir, prefix, enc) ==
    LET args == [content |-> content, extensions |-> extensions,
                 output_dir |-> output_dir, prefix |-> prefix]
        done == generate_loop(extensions, content, output_dir, prefix, enc,
                              [generators |-> generators, clock |-> clock,
                               files |-> files, invoked |-> <<>>,
                               generated_files |-> <<>>])
    IN
    /\ Cardinality(DOMAIN files) < MaxFiles
    /\ dirs' = dirs \cup WithParents(output_dir)
    /\ IF invalid_exts(extensions) # <<>>
       THEN /\ last' = [Call("generate", args) EXCEPT
                           !.raised = TRUE, !.ret = "UsageError"]
            /\ files' = files
       ELSE /\ files' = done.files
            /\ last' = [Call("generate", args) EXCEPT
                           !.invoked = done.invoked,
                           !.results = done.generated_files]
    /\ UNCHANGED <<regVars, clock>>

\* one command line
Generate ==
    \E content \in CliContents, extensions \in ExtArgs,
       output_dir \in OutputDirs, prefix \in Prefixes :
        \/ generate(content, extensions, output_dir, prefix, "ok")
        \/ /\ \E i \in 1..Len(extensions) :
                 get_generator(generators, extensions[i]) \in Encoders
           /\ \E enc \in EncoderOutcomes \ {"ok"} :
                 generate(content, extensions, output_dir, prefix, enc)

InitCli ==
    /\ InitRegistry
    /\ dirs \in {{}, {"out"}}
    /\ files = <<>>
    /\ clock \in 0..MaxClock
    /\ last = Call("init", <<>>)

NextCli == Generate

SpecCli == InitCli /\ [][NextCli]_vars

\* ------------------------------------------------------------------- C13
\* the extensions for which the command called generate_file
Attempted(call) == {call.invoked[i].extension : i \in 1..Len(call.invoked)}

\* C13: whatever fails for one requested extension, every requested
\* extension that has a registered generator is attempted by the command.
C13_FailureDoesNotAbort ==
    last.op = "generate" =>
        \A i \in 1..Len(last.arg.extensions) :
            get_generator(generators, last.arg.extensions[i]) # None
                => last.arg.extensions[i] \in Attempted(last)

\* ------------------------------------------------------------------- C14
\* C14: the command exits with 0 exactly when it generated a file.
C14_ExitCode ==
    last.op = "generate" =>
        (exit_code(last) = 0 <=> last.results # <<>>)

\* ------------------------------------------------------------------- C15
\* the file has no byte: open succeeds and read(1) returns b""
IsEmptyFile(f) == f.kind = "raw" /\ f.data = <<>>

\* C15: validate_file of an existing regular file whose extension has no
\* entry in VALIDATORS returns, and its result is valid exactly when the
\* file can be opened and is not empty.
C15_GenericFallback ==
    (/\ last.op = "validate_file"
     /\ is_file(files, last.arg)
     /\ Lower(splitext(last.arg)) \notin DOMAIN VALIDATORS)
    => /\ ~last.raised
       /\ last.ret.is_valid <=>
              (files[last.arg].readable /\ ~IsEmptyFile(files[last.arg]))

\* a ".xyz" file that holds a control character is valid, an empty or
\* unreadable ".xyz" file next to it is not
C15_Witness ==
    /\ last.op = "validate_file"
    /\ is_file(files, last.arg)
    /\ last.arg.ext = <<"xyz">>
    /\ files[last.arg].data = <<"ctl">>
    /\ last.ret.is_valid
    /\ \E q \in DOMAIN files :
          /\ q.ext = <<"xyz">>
          /\ is_file(files, q)
          /\ ~validate_file(files, q).is_valid

\* ------------------------------------------------------------------- C16
\* C16 as stated: the result that a cleanup call returns for a file is the
\* result that the validator produced for it, field by field.
C16_ResultNeverModified ==
    [][(last'.op \in CleanupOps /\ ~last'.raised) =>
          \A p \in DOMAIN last'.results :
              last'.results[p] = validate_file(files, p)]_vars

\* C16 amended: is_valid, details and the validator's message text are
\* kept; the only change is a note appended to the message of an invalid
\* file's result by cleanup_invalid_files; the result of a valid file and
\* the result that validate_file returns are the validator's, unchanged.
C16_OnlyNoteAppended ==
    [][/\ (last'.op \in CleanupOps /\ ~last'.raised) =>
             \A p \in DOMAIN last'.results :
                 LET r == last'.results[p]
                     v == validate_file(files, p)
                 IN
                 /\ r.is_valid = v.is_valid
                 /\ r.details = v.details
                 /\ r.message = v.message
                 /\ v.is_valid => r = v
                 /\ ~v.is_valid =>
                        r.note \in {"(deleted)", "(failed to delete)"}
       /\ last'.op = "validate_file" =>
             last'.ret = validate_file(files, last'.arg)]_vars

\* a cleanup call returned an invalid file's result with a note appended
\* and a valid file's result as the validator made it
C16_Witness ==
    /\ last.op = "cleanup_invalid_files"
    /\ ~last.raised
    /\ \E p, q \in DOMAIN last.results :
          /\ ~last.results[p].is_valid
          /\ last.results[p].message = "File is empty"
          /\ last.results[p].note = "(deleted)"
          /\ last.results[q] = ValidationResult(TRUE, "File is valid")

\* ------------------------------------------ utils/image_utils.py, layout
MaxTextLen == 4

NL == "\n"

\* the characters of a text: two letters, the space and the line break
TextChars == {"a", "b", " ", NL}

Texts == BoundedSeq(TextChars, MaxTextLen)

\* Optional[int]: <<>> is None, <<n>> the integer n
MaxWidths == {<<>>, <<0>>, <<2>>, <<3>>, <<5>>}

\* the line spacings passed, the default 4 among them
Spacings == {0, 4}

\* "if max_width:" is false for None and for 0
truthy(max_width) == max_width # <<>> /\ max_width[1] # 0

\* The font: the advance width of a character, and the height of its ink.
advance(c) ==
    CASE c = "a" -> 2
      [] c = "b" -> 3
      [] OTHER -> 1

ink(c) ==
    CASE c = "a" -> 2
      [] c = "b" -> 3
      [] OTHER -> 0

\* font.getlength(text)
RECURSIVE getlength(_)
getlength(s) ==
    IF s = <<>> THEN 0 ELSE advance(Head(s)) + getlength(Tail(s))

\* font.getbbox(line): right - left and bottom - top
bbox_width(line) == getlength(line)

RECURSIVE bbox_height(_)
bbox_height(line) ==
    IF line = <<>> THEN 0
    ELSE LET rest == bbox_height(Tail(line)) IN
         IF ink(Head(line)) > rest THEN ink(Head(line)) ELSE rest

\* str.split(sep): the pieces between the separators, at least one
RECURSIVE split(_, _)
split(s, sep) ==
    IF \A i \in 1..Len(s) : s[i] # sep THEN <<s>>
    ELSE LET i == CHOOSE k \in 1..Len(s) :
                      s[k] = sep /\ \A j \in 1..(k - 1) : s[j] # sep
         IN <<SubSeq(s, 1, i - 1)>> \o split(SubSeq(s, i + 1, Len(s)), sep)

\* ' '.join(words)
RECURSIVE join(_)
join(words) ==
    IF words = <<>> THEN <<>>
    ELSE IF Len(words) = 1 THEN words[1]
    ELSE words[1] \o <<" ">> \o join(Tail(words))

\* the current line appended even when it holds no word
closed_always(current_line) == <<join(current_line)>>

\* "if current_line: processed_lines.append(' '.join(current_line))"
closed(current_line) ==
    IF current_line # <<>> THEN <<join(current_line)>> ELSE <<>>

\* the word loop that closes a line when the test line is as wide as
\* max_width
RECURSIVE wrap_strict(_, _, _)
wrap_strict(words, current_line, max_width) ==
    IF words = <<>> THEN closed(current_line)
    ELSE
      LET word == Head(words)
          test_line == join(Append(current_line, word))
      IN
      IF getlength(test_line) < max_width[1]
      THEN wrap_strict(Tail(words), Append(current_line, word), max_width)
      ELSE closed(current_line)
               \o wrap_strict(Tail(words), <<word>>, max_width)

\* image_utils.py 142-154: the loop over the words of one line, and the
\* last line added after it
RECURSIVE wrap(_, _, _)
wrap(words, current_line, max_width) ==
    IF words = <<>> THEN closed(current_line)
    ELSE
      LET word == Head(words)
          test_line == join(Append(current_line, word))
      IN
      IF getlength(test_line) <= max_width[1]
      THEN wrap(Tail(words), Append(current_line, word), max_width)
      ELSE closed(current_line) \o wrap(Tail(words), <<word>>, max_width)

\* the loop over the lines with the blank lines skipped
RECURSIVE layout_skip_blank(_, _)
layout_skip_blank(lines, max_width) ==
    IF lines = <<>> THEN <<>>
    ELSE
      LET line == Head(lines)
          rest == layout_skip_blank(Tail(lines), max_width)
      IN
      IF strip(line) = <<>> THEN rest
      ELSE IF truthy(max_width)
      THEN wrap(split(line, " "), <<>>, max_width) \o rest
      ELSE <<line>> \o rest

\* image_utils.py 132-156 and 239-263: the loop over the lines of the text
RECURSIVE layout(_, _)
layout(lines, max_width) ==
    IF lines = <<>> THEN <<>>
    ELSE
      LET line == Head(lines)
          rest == layout(Tail(lines), max_width)
      IN
      IF strip(line) = <<>> THEN << <<>> >> \o rest
      ELSE IF truthy(max_width)
      THEN wrap(split(line, " "), <<>>, max_width) \o rest
      ELSE <<line>> \o rest

\* image_utils.py 128-156: processed_lines of get_multiline_text_size
processed_lines(text, max_width) == layout(split(text, NL), max_width)

\* image_utils.py 163-170: the loop that adds up the line heights, the
\* spacing added to every line but the last; i counts from 0
RECURSIVE total_height(_, _, _)
total_height(lines, i, spacing) ==
    IF i = Len(lines) THEN 0
    ELSE bbox_height(lines[i + 1])
             + (IF i < Len(lines) - 1 THEN spacing ELSE 0)
             + total_height(lines, i + 1, spacing)

\* max(max_line_width, line_width) over the lines
RECURSIVE max_line_width(_)
max_line_width(lines) ==
    IF lines = <<>> THEN 0
    ELSE LET rest == max_line_width(Tail(lines)) IN
         IF bbox_width(Head(lines)) > rest THEN bbox_width(Head(lines))
         ELSE rest

\* get_multiline_text_size(text, font, spacing, max_width)
get_multiline_text_size(text, spacing, max_width) ==
    IF text = <<>> THEN <<0, 0>>
    ELSE LET lines == processed_lines(text, max_width) IN
         <<max_line_width(lines), total_height(lines, 0, spacing)>>

\* image_utils.py 235-265: the lines that draw_text_on_image draws; a
\* text that is empty is not drawn at all
draw_lines(text, max_width) ==
    IF text = <<>> THEN <<>>
    ELSE IF Contains(text, NL)
            \/ (truthy(max_width) /\ getlength(text) > max_width[1])
    THEN layout(split(text, NL), max_width)
    ELSE <<text>>

\* sum(line_heights)
RECURSIVE sum_heights(_)
sum_heights(lines) ==
    IF lines = <<>> THEN 0
    ELSE bbox_height(Head(lines)) + sum_heights(Tail(lines))

\* the arguments of a call: text, spacing and max_width
LayoutArgs ==
    [text : Texts, spacing : Spacings, max_width : MaxWidths]

\* a call of get_multiline_text_size with the arguments drawn at the
\* start; results holds processed_lines
GetMultilineTextSize ==
    LET text == last.arg.text
        spacing == last.arg.spacing
        max_width == last.arg.max_width
    IN
    /\ last.op = "input"
    /\ last' = [Call("get_multiline_text_size", last.arg) EXCEPT
                   !.ret = get_multiline_text_size(text, spacing, max_width),
                   !.results = IF text = <<>> THEN <<>>
                               ELSE processed_lines(text, max_width)]
    /\ UNCHANGED <<regVars, fsVars>>

\* a call of draw_text_on_image with the arguments drawn at the start;
\* results holds the lines drawn and ret max_line_width and total_height
\* (image_utils.py 268-279)
DrawTextOnImage ==
    LET text == last.arg.text
        line_spacing == last.arg.spacing
        max_width == last.arg.max_width
        lines == draw_lines(text, max_width)
    IN
    /\ last.op = "input"
    /\ last' = [Call("draw_text_on_image", last.arg) EXCEPT
                   !.ret = IF text = <<>> THEN None
                           ELSE <<max_line_width(lines),
                                  sum_heights(lines)
                                     + (Len(lines) - 1) * line_spacing>>,
                   !.results = lines]
    /\ UNCHANGED <<regVars, fsVars>>

InitLayout ==
    /\ InitRegistry
    /\ dirs = {}
    /\ files = <<>>
    /\ clock = 0
    /\ \E arg \in LayoutArgs : last = Call("input", arg)

NextLayout ==
    \/ GetMultilineTextSize
    \/ DrawTextOnImage

SpecLayout == InitLayout /\ [][NextLayout]_vars

\* ------------------------------------------------------------------- C17
\* the first word of a line
first_word(line) == Head(split(line, " "))

\* C17: get_multiline_text_size of a text that is not empty adds up the
\* heights of its n lines and n - 1 spacings.  With a max width, a text of
\* one line is cut between words only: the lines joined by spaces are the
\* text, a line of several words is no wider than max_width, and a line
\* ends where the next word appended to it would be wider than max_width.
\* For two words of which the first fits and both together do not, the
\* lines are the two words.
C17_WrapAndHeight ==
    (last.op = "get_multiline_text_size" /\ last.arg.text # <<>>) =>
        LET text == last.arg.text
            max_width == last.arg.max_width
            lines == last.results
            n == Len(lines)
        IN
        /\ n >= 1
        /\ last.ret[2] = sum_heights(lines) + (n - 1) * last.arg.spacing
        /\ (truthy(max_width) /\ ~Contains(text, NL) /\ strip(text) # <<>>)
           => /\ join(lines) = text
              /\ \A k \in 1..n :
                    Contains(lines[k], " ")
                        => getlength(lines[k]) <= max_width[1]
              /\ \A k \in 1..(n - 1) :
                    getlength(lines[k] \o <<" ">> \o first_word(lines[k + 1]))
                        > max_width[1]
        /\ \A i \in 1..Len(text) :
              LET w1 == SubSeq(text, 1, i - 1)
                  w2 == SubSeq(text, i + 1, Len(text))
              IN
              (/\ text[i] = " "
               /\ w1 # <<>> /\ w2 # <<>>
               /\ \A j \in 1..Len(text) : j # i => text[j] \in {"a", "b"}
               /\ truthy(max_width)
               /\ getlength(w1) <= max_width[1]
               /\ getlength(text) > max_width[1])
              => lines = <<w1, w2>>

\* "a b" measured with max width 3 and spacing 4: "a" fits, "a b" does
\* not; the lines are "a" and "b" and the height is 2 + 4 + 3
C17_Witness ==
    /\ last.op = "get_multiline_text_size"
    /\ last.arg.text = <<"a", " ", "b">>
    /\ last.arg.max_width = <<3>>
    /\ last.arg.spacing = 4
    /\ last.results = << <<"a">>, <<"b">> >>
    /\ last.ret[2] = 9

\* ------------------------------------------------------------------- C18
\* the output lines of one input line: one empty line for an empty line
piece(line, max_width) ==
    IF line = <<>> THEN << <<>> >> ELSE layout(<<line>>, max_width)

\* the output lines of the input lines, in order
RECURSIVE pieces(_, _)
pieces(lines, max_width) ==
    IF lines = <<>> THEN <<>>
    ELSE piece(Head(lines), max_width) \o pieces(Tail(lines), max_width)

\* C18: for a text that is not empty, measured or drawn, with or without a
\* max width: there are at least as many output lines as input lines
\* between line breaks; when the text has a line break, the output is the
\* input lines laid out one after the other, an empty input line giving
\* exactly one empty output line; without a max width there are as many
\* output lines as input lines.
C18_BlankLinesKept ==
    (/\ last.op \in {"get_multiline_text_size", "draw_text_on_image"}
     /\ last.arg.text # <<>>)
    => LET in == split(last.arg.text, NL)
           out == last.results
           max_width == last.arg.max_width
       IN
       /\ Len(out) >= Len(in)
       /\ Contains(last.arg.text, NL) => out = pieces(in, max_width)
       /\ ~truthy(max_width) =>
              /\ Len(out) = Len(in)
              /\ \A i \in 1..Len(in) : in[i] = <<>> => out[i] = <<>>

\* "a\n\nb" drawn with a max width gives "a", an empty line and "b", and
\* so it does measured
C18_Witness ==
    /\ last.op = "draw_text_on_image"
    /\ last.arg.text = <<"a", NL, NL, "b">>
    /\ last.arg.max_width = <<2>>
    /\ last.results = << <<"a">>, <<>>, <<"b">> >>
    /\ processed_lines(last.arg.text, last.arg.max_width) = last.results

\* ------------------------------------------------- generators/video.py
\* the arguments of generate_video_file calls; 5 and 24 are the defaults
VideoPaths ==
    {PathOf("out/sub", "video", 0, <<"mp4">>),
     PathOf("out", "video", 0, <<"avi">>)}
Durations == {1, 5}
FrameRates == {1, 24}

\* What is installed (PILLOW_AVAILABLE, NUMPY_AVAILABLE, MOVIEPY_AVAILABLE,
\* video.py 23-45) and what the external programs do when they are run:
\* subprocess.run of ffmpeg and moviepy's write_videofile.
VideoEnvs ==
    [PILLOW_AVAILABLE : BOOLEAN, NUMPY_AVAILABLE : BOOLEAN,
     MOVIEPY_AVAILABLE : BOOLEAN,
     ffmpeg : EncoderOutcomes, moviepy : EncoderOutcomes]

VideoArgs ==
    [content : {<<"a">>}, output_path : VideoPaths, duration : Durations,
     fps : FrameRates, use_moviepy : BOOLEAN, env : VideoEnvs]

\* video.py 94-102: _create_video_frame raises ImportError without them
frames_ok(env) == env.PILLOW_AVAILABLE /\ env.NUMPY_AVAILABLE

\* _generate_video_with_ffmpeg: True when ffmpeg ran; False for a
\* CalledProcessError or an OSError; the ImportError of
\* _create_video_frame is not caught
_generate_video_with_ffmpeg(env) ==
    IF ~frames_ok(env) THEN "ImportError"
    ELSE IF env.ffmpeg = "ok" THEN "True"
    ELSE "False"

\* _generate_video_with_moviepy: every exception is caught and gives
\* False, the ImportError of a missing moviepy or Pillow included
_generate_video_with_moviepy(env) ==
    IF env.MOVIEPY_AVAILABLE /\ frames_ok(env) /\ env.moviepy = "ok"
    THEN "True"
    ELSE "False"

\* one backend call with its positional arguments
BackendCall(backend, a) ==
    [backend |-> backend, content |-> a.content,
     output_path |-> a.output_path, duration |-> a.duration, fps |-> a.fps]

\* what a call of generate_video_file did: the backend calls in order, and
\* the value returned or the exception raised
VideoOutcome(invoked, raised, ret) ==
    [invoked |-> invoked, raised |-> raised, ret |-> ret]

\* generate_video_file that returns False when both backends fail
generate_video_file_returns_false(a) ==
    LET ffmpeg == BackendCall("ffmpeg", a)
        moviepy == BackendCall("moviepy", a)
        tried == IF a.use_moviepy THEN <<>> ELSE <<ffmpeg>>
    IN
    IF ~frames_ok(a.env) THEN VideoOutcome(<<>>, TRUE, "ImportError")
    ELSE IF ~a.use_moviepy /\ _generate_video_with_ffmpeg(a.env) = "True"
    THEN VideoOutcome(<<ffmpeg>>, FALSE, "True")
    ELSE IF ~a.env.MOVIEPY_AVAILABLE
    THEN VideoOutcome(tried, FALSE, "False")
    ELSE VideoOutcome(Append(tried, moviepy), FALSE,
                      _generate_video_with_moviepy(a.env))

\* generate_video_file that tries moviepy before ffmpeg
generate_video_file_moviepy_first(a) ==
    LET ffmpeg == BackendCall("ffmpeg", a)
        moviepy == BackendCall("moviepy", a)
        tried == IF a.env.MOVIEPY_AVAILABLE THEN <<moviepy>> ELSE <<>>
    IN
    IF ~frames_ok(a.env) THEN VideoOutcome(<<>>, TRUE, "ImportError")
    ELSE IF a.env.MOVIEPY_AVAILABLE
            /\ _generate_video_with_moviepy(a.env) = "True"
    THEN VideoOutcome(<<moviepy>>, FALSE, "True")
    ELSE IF a.use_moviepy
    THEN VideoOutcome(tried, TRUE, "RuntimeError")
    ELSE IF _generate_video_with_ffmpeg(a.env) = "True"
    THEN VideoOutcome(Append(tried, ffmpeg), FALSE, "True")
    ELSE VideoOutcome(Append(tried, ffmpeg), TRUE, "RuntimeError")

\* video.py 297-326 generate_video_file: the availability check, ffmpeg
\* unless use_moviepy, then moviepy if it is installed, then RuntimeError
generate_video_file(a) ==
    LET ffmpeg == BackendCall("ffmpeg", a)
        moviepy == BackendCall("moviepy", a)
        tried == IF a.use_moviepy THEN <<>> ELSE <<ffmpeg>>
    IN
    IF ~frames_ok(a.env) THEN VideoOutcome(<<>>, TRUE, "ImportError")
    ELSE IF ~a.use_moviepy /\ _generate_video_with_ffmpeg(a.env) = "True"
    THEN VideoOutcome(<<ffmpeg>>, FALSE, "True")
    ELSE IF ~a.env.MOVIEPY_AVAILABLE
    THEN VideoOutcome(tried, TRUE, "RuntimeError")
    ELSE IF _generate_video_with_moviepy(a.env) = "True"
    THEN VideoOutcome(Append(tried, moviepy), FALSE, "True")
    ELSE VideoOutcome(Append(tried, moviepy), TRUE, "RuntimeError")

\* the output file after the backend calls: whole when the last backend
\* succeeded, else what a backend that failed while writing left behind
video_file(a, run) ==
    LET outcome(call) ==
            IF call.backend = "ffmpeg" THEN a.env.ffmpeg ELSE a.env.moviepy
        wrote == {i \in 1..Len(run.invoked) :
                      outcome(run.invoked[i]) # "raise"}
    IN
    IF wrote = {} THEN <<>>
    ELSE <<File("video", a.content,
                outcome(run.invoked[Len(run.invoked)]) = "ok")>>

\* a call of generate_video_file with the arguments drawn at the start
GenerateVideoFile ==
    LET a == last.arg
        run == generate_video_file(a)
        written == video_file(a, run)
    IN
    /\ last.op = "input"
    /\ dirs' = IF frames_ok(a.env)
               THEN dirs \cup WithParents(a.output_path.dir)
               ELSE dirs
    /\ files' = IF written = <<>> THEN files
                ELSE DictSet(files, a.output_path, written[1])
    /\ last' = [Call("generate_video_file", a) EXCEPT
                   !.raised = run.raised, !.ret = run.ret,
                   !.invoked = run.invoked,
                   !.created = written # <<>>]
    /\ UNCHANGED <<regVars, clock>>

InitVideo ==
    /\ InitRegistry
    /\ dirs = {}
    /\ files = <<>>
    /\ clock = 0
    /\ \E a \in VideoArgs : last = Call("input", a)

NextVideo == GenerateVideoFile

SpecVideo == InitVideo /\ [][NextVideo]_vars

\* ------------------------------------------------------------------- C19
\* C19: a call with use_moviepy false in which the ffmpeg backend returns
\* True returns True, and its only backend call is one call of the ffmpeg
\* backend with (content, output_path, duration, fps).
C19_FfmpegOnly ==
    (/\ last.op = "generate_video_file"
     /\ ~last.arg.use_moviepy
     /\ _generate_video_with_ffmpeg(last.arg.env) = "True")
    => /\ ~last.raised
       /\ last.ret = "True"
       /\ last.invoked = <<BackendCall("ffmpeg", last.arg)>>

\* ffmpeg succeeded with moviepy installed and able to run: moviepy was
\* not called
C19_Witness ==
    /\ last.op = "generate_video_file"
    /\ ~last.arg.use_moviepy
    /\ last.arg.env.MOVIEPY_AVAILABLE
    /\ last.arg.env.moviepy = "ok"
    /\ last.arg.duration = 5
    /\ last.arg.fps = 24
    /\ last.ret = "True"
    /\ Len(last.invoked) = 1
    /\ last.invoked[1].backend = "ffmpeg"
    /\ is_file(files, last.arg.output_path)

\* ------------------------------------------------------------------- C20
\* the calls of a backend among the backend calls of a call
CallsOf(backend, call) ==
    {i \in 1..Len(call.invoked) : call.invoked[i].backend = backend}

C21_VerbatimText ==
    (/\ last.op = "generate_file"
     /\ \/ NormalForm(last.arg.extension) = <<"txt">>
        \/ /\ NormalForm(last.arg.extension) = <<"json">>
           /\ ~json_loads_ok(last.arg.content))
    => /\ last.raised <=> Contains(last.arg.content, "sur")
       /\ ~last.raised =>
              /\ is_file(files, last.ret)
              /\ files[last.ret].kind = "raw"
              /\ files[last.ret].data = last.arg.content

\* --------------------------------------------- generators/image_set.py
MaxIcons == 2

\* The records of the "icons" list of a configuration file.  A JSON object
\* has kind "dict", with src a file name or None when the key is missing
\* and sizes "ok" for a value such as "100x200", "bad" for a value that
\* does not parse to two positive integers, "missing" for no such key; any
\* other JSON value (a string, a number, null, a list) has kind "other".
Icons ==
    [kind : {"dict"}, src : {"a", "b", None},
     sizes : {"ok", "bad", "missing"}]
    \cup {[kind |-> "other", src |-> None, sizes |-> "missing"]}

\* output_dir / icon["src"]
SetPath(output_dir, src) == [dir |-> output_dir, name |-> src]

\* image_set.py 62-99: the body of the try block for one record: it
\* reaches generated_files.append when the record is an object with a
\* "sizes" that parses and a "src", and the image is saved
icon_ok(icon, enc) ==
    /\ icon.kind = "dict"
    /\ icon.sizes = "ok"
    /\ icon.src # None
    /\ enc = "ok"

\* the record gets as far as img.save, which opens the output file
icon_saves(icon) ==
    icon.kind = "dict" /\ icon.sizes = "ok" /\ icon.src # None

\* image_set.py 61-103: the loop over the records.  The handler prints
\* icon.get('src'), which raises AttributeError for a record that is not
\* an object; that exception leaves the loop and the call.
RECURSIVE image_set_loop(_, _, _, _)
image_set_loop(icons, output_dir, enc, acc) ==
    IF icons = <<>> THEN acc
    ELSE
      LET icon == Head(icons)
          output_path == SetPath(output_dir, icon.src)
          saved ==
              IF icon_saves(icon) /\ enc # "raise"
              THEN DictSet(acc.files, output_path,
                           File("image", <<>>, enc = "ok"))
              ELSE acc.files
      IN
      IF icon_ok(icon, enc)
      THEN image_set_loop(Tail(icons), output_dir, enc,
               [acc EXCEPT !.files = saved,
                           !.generated_files =
                               Append(acc.generated_files, output_path)])
      ELSE IF icon.kind # "dict"
      THEN [acc EXCEPT !.raised = TRUE]
      ELSE image_set_loop(Tail(icons), output_dir, enc,
                          [acc EXCEPT !.files = saved])

\* the configurations and the arguments of a call
SetArgs ==
    [icons : BoundedSeq(Icons, MaxIcons), output_dir : OutputDirs,
     enc : EncoderOutcomes]

\* ImageSetGenerator.generate(config_path, output_dir) for a configuration
\* file that holds the "icons" list drawn at the start
ImageSetGenerate ==
    LET a == last.arg
        done == image_set_loop(a.icons, a.output_dir, a.enc,
                               [files |-> files, generated_files |-> <<>>,
                                raised |-> FALSE])
    IN
    /\ last.op = "input"
    /\ dirs' = dirs \cup WithParents(a.output_dir)
    /\ files' = done.files
    /\ last' = [Call("ImageSetGenerator.generate", a) EXCEPT
                   !.raised = done.raised,
                   !.ret = IF done.raised THEN "AttributeError"
                           ELSE "list",
                   !.results = IF done.raised THEN <<>>
                               ELSE done.generated_files]
    /\ UNCHANGED <<regVars, clock>>

InitSet ==
    /\ InitRegistry
    /\ dirs = {}
    /\ files = <<>>
    /\ clock = 0
    /\ \E a \in SetArgs : last = Call("input", a)

NextSet == ImageSetGenerate

SpecSet == InitSet /\ [][NextSet]_vars

\* ------------------------------------------------------------------- C22
\* the output paths of the records that succeed, in configuration order
RECURSIVE Succeeded(_, _, _)
Succeeded(icons, output_dir, enc) ==
    IF icons = <<>> THEN <<>>
    ELSE (IF icon_ok(Head(icons), enc)
          THEN <<SetPath(output_dir, Head(icons).src)>>
          ELSE <<>>)
         \o Succeeded(Tail(icons), output_dir, enc)

\* C22: a call of ImageSetGenerator.generate returns, whatever record
\* fails, and the list returned holds the output paths of the records that
\* succeeded, in configuration order.
C22_BestEffortBatch ==
    last.op = "ImageSetGenerator.generate" =>
        /\ ~last.raised
        /\ last.results =
               Succeeded(last.arg.icons, last.arg.output_dir, last.arg.enc)

\* ------------------------------ registrations interleaved with the calls
\* the registrations, lookups and pipeline calls that are interleaved
MixExtLists == {<< <<"txt">> >>, << <<Dot, "TXT">> >>, << <<"xyz">> >>}
MixIds == {<<"txt">>, <<"TXT">>, <<Dot, "xyz">>, <<"png">>}

\* a call of get_generator of generators/__init__.py
GetGenerator ==
    \E extension \in MixIds :
        /\ last' = [Call("get_generator", extension) EXCEPT
                       !.ret = get_generator(generators, extension)]
        /\ UNCHANGED <<regVars, fsVars>>

InitMix ==
    /\ InitRegistry
    /\ dirs = {}
    /\ files = <<>>
    /\ clock = 0
    /\ last = Call("init", <<>>)

NextMix ==
    \/ \E e \in MixExtLists, g \in RegGens : register_generator(e, g)
    \/ GetGenerator
    \/ \E extension \in {<<"txt">>, <<"xyz">>}, enc \in {"ok", "raise"} :
          generate_file(<<"a">>, extension, "out/sub", "generated", enc)
    \/ \E p \in DOMAIN files : ValidateFile(p)
    \/ CleanupInvalidFiles

SpecMix == InitMix /\ [][NextMix]_vars

\* ------------------------------------------------------------------- C23
\* the registrations of the normalized identifier of y made so far in the
\* registry of generators/__init__.py, as positions of hist
RegistrationsOf(h, y) ==
    {i \in 1..Len(h) :
        /\ h[i].registry = "generators"
        /\ \E j \in 1..Len(h[i].extensions) :
               NormalForm(h[i].extensions[j]) = NormalForm(y)}

\* the generator given in the most recent registration of y, or the one
\* the package registered for it when it was imported
LastRegistered(h, y) ==
    IF RegistrationsOf(h, y) # {}
    THEN h[CHOOSE i \in RegistrationsOf(h, y) :
               \A k \in RegistrationsOf(h, y) : k <= i].func
    ELSE DictGet(InitGenerators, NormalForm(y))

\* the calls that read the registry or do not use it
ReadOnlyOps ==
    {"get_generator", "generate_file", "validate_file",
     "cleanup_invalid_files"}

\* C23: after every step get_generator returns, for every identifier, the
\* generator of the most recent registration of its normalized form; a
\* lookup call returns that generator and generate_file invokes it; an
\* identifier that resolves keeps resolving; and the lookup and pipeline
\* calls leave the registry as it is.
C23_LastWriteWins ==
    [][/\ \A y \in Ids \cup MixIds :
             /\ get_generator(generators', y) = LastRegistered(hist', y)
             /\ get_generator(generators, y) # None
                    => get_generator(generators', y) # None
       /\ last'.op = "get_generator" =>
              last'.ret = LastRegistered(hist', last'.arg)
       /\ (last'.op = "generate_file" /\ last'.invoked # <<>>) =>
              last'.invoked = <<LastRegistered(hist', last'.arg.extension)>>
       /\ last'.op \in ReadOnlyOps =>
              /\ generators' = generators
              /\ SUPPORTED_EXTENSIONS' = SUPPORTED_EXTENSIONS
              /\ hist' = hist]_vars

\* "txt" was registered again with another generator, and generate_file
\* for "TXT"-normalized "txt" invoked the new one
C23_Witness ==
    /\ \E i \in 1..Len(hist) :
          /\ hist[i].extensions = << <<Dot, "TXT">> >>
          /\ hist[i].func = "generate_pdf_file"
    /\ last.op = "generate_file"
    /\ last.arg.extension = <<"txt">>
    /\ last.invoked = <<"generate_pdf_file">>
    /\ get_generator(generators, <<"png">>) = "generate_image_file"

\* ------------------------------------- generate_file calls that overlap
\* Two generate_file calls for text formats, each taken in the steps in
\* which it touches the clock and the file system: "start" reads
\* datetime.now() and computes filepath, "open" is open(output_path, 'w'),
\* which creates or truncates the file, "write" is the flush of the
\* buffered f.write(content) when the file is closed, at the file offset
\* of this call's own descriptor.  In SpecPath `last` holds both calls.
PathContents == {<<"a", "a">>, <<"1">>}
PathExtensions == {<<"txt">>, <<Dot, "TXT">>, <<"json">>}
PathPrefixes == {"generated", "other"}

\* a call that has not started; ts is <<>> until the clock is read
PathCall(content, extension, prefix) ==
    [content |-> content, extension |-> extension, output_dir |-> "out/sub",
     prefix |-> prefix, pc |-> "start", ts |-> <<>>, after |-> FALSE]

PathCalls ==
    {PathCall(content, extension, prefix) :
        content \in PathContents, extension \in PathExtensions,
        prefix \in PathPrefixes}

\* a file path that takes the extension as it was passed
filepath_of_raw_extension(c) ==
    PathOf(c.output_dir, c.prefix, c.ts[1], c.extension)

\* generators/__init__.py 146-148: filepath of a call that has started
filepath_of(c) ==
    PathOf(c.output_dir, c.prefix, c.ts[1], ext_lower(c.extension))

\* the bytes a write of data at offset 0 leaves in a file that holds old
overwrite(old, data) ==
    data \o SubSeq(old, Len(data) + 1, Len(old))

\* the other call
other(i) == 3 - i

\* timestamp = datetime.now().strftime("%Y%m%d_%H%M%S")
StartCall(i) ==
    LET c == last.arg[i] IN
    /\ last.op = "generate_file"
    /\ c.pc = "start"
    /\ last' = [last EXCEPT !.arg[i].ts = <<clock>>, !.arg[i].pc = "open"]
    /\ dirs' = dirs \cup WithParents(c.output_dir)
    /\ UNCHANGED <<regVars, files, clock>>

\* open(output_path, 'w', encoding='utf-8')
OpenCall(i) ==
    LET c == last.arg[i] IN
    /\ last.op = "generate_file"
    /\ c.pc = "open"
    /\ files' = DictSet(files, filepath_of(c), File("raw", <<>>, TRUE))
    /\ last' = [last EXCEPT !.arg[i].pc = "write",
                            !.arg[i].after = last.arg[other(i)].pc = "done"]
    /\ UNCHANGED <<regVars, dirs, clock>>

\* f.write(content) and the close of the file
WriteCall(i) ==
    LET c == last.arg[i]
        data == generate_text_file(c.content, filepath_of(c)).file.data
    IN
    /\ last.op = "generate_file"
    /\ c.pc = "write"
    /\ files' = DictSet(files, filepath_of(c),
                        File("raw", overwrite(files[filepath_of(c)].data,
                                              data), TRUE))
    /\ last' = [last EXCEPT !.arg[i].pc = "done",
                            !.results = Append(last.results, i)]
    /\ UNCHANGED <<regVars, dirs, clock>>

InitPath ==
    /\ InitRegistry
    /\ dirs = {}
    /\ files = <<>>
    /\ clock = 0
    /\ \E c1, c2 \in PathCalls : last = Call("generate_file", <<c1, c2>>)

NextPath ==
    \/ \E i \in 1..2 : StartCall(i)
    \/ \E i \in 1..2 : OpenCall(i)
    \/ \E i \in 1..2 : WriteCall(i)
    \/ Tick

SpecPath == InitPath /\ [][NextPath]_vars

\* ------------------------------------------------------------------- C24
\* both calls have computed their destination path
BothStarted ==
    /\ last.op = "generate_file"
    /\ \A i \in 1..2 : last.arg[i].pc # "start"

\* both calls are done and the second to write was call i
WroteLast(i) ==
    /\ last.op = "generate_file"
    /\ Len(last.results) = 2
    /\ last.results[2] = i

\* what call i writes
Written(i) ==
    generate_text_file(last.arg[i].content, filepath_of(last.arg[i])).file.data

\* C24 as stated: the two calls target the same path exactly when they
\* agree in prefix, in normalized format and in the clock second read, the
\* output directory being the same; and when they target the same path
\* the file holds what the later write wrote, whether the calls overlap
\* or not.
C24_LaterWriteReplaces ==
    /\ BothStarted =>
          (filepath_of(last.arg[1]) = filepath_of(last.arg[2])
           <=> /\ last.arg[1].prefix = last.arg[2].prefix
               /\ NormalForm(last.arg[1].extension) =
                      NormalForm(last.arg[2].extension)
               /\ last.arg[1].ts = last.arg[2].ts)
    /\ \A i \in 1..2 :
          (/\ WroteLast(i)
           /\ filepath_of(last.arg[1]) = filepath_of(last.arg[2]))
          => files[filepath_of(last.arg[i])].data = Written(i)

\* C24 amended: the paths are as stated; the file holds what the later
\* call wrote when that call opened the file after the earlier call was
\* done; when the calls overlap the file holds what the later write wrote,
\* followed by what the earlier write left beyond its length.
C24_SequentialReplaces ==
    /\ BothStarted =>
          (filepath_of(last.arg[1]) = filepath_of(last.arg[2])
           <=> /\ last.arg[1].prefix = last.arg[2].prefix
               /\ NormalForm(last.arg[1].extension) =
                      NormalForm(last.arg[2].extension)
               /\ last.arg[1].ts = last.arg[2].ts)
    /\ \A i \in 1..2 :
          WroteLast(i) =>
              LET p == filepath_of(last.arg[i])
                  q == filepath_of(last.arg[other(i)])
              IN
              /\ is_file(files, p) /\ is_file(files, q)
              /\ (p = q /\ last.arg[i].after) => files[p].data = Written(i)
              /\ p = q =>
                     files[p].data \in
                         {Written(i),
                          overwrite(Written(other(i)), Written(i))}
              /\ p # q =>
                     /\ files[p].data = Written(i)
                     /\ files[q].data = Written(other(i))

\* two calls for "txt" and ".TXT" in the same second, one after the other:
\* one file, which holds the content of the second call
C24_Witness ==
    /\ WroteLast(2)
    /\ last.arg[1].extension = <<"txt">>
    /\ last.arg[2].extension = <<Dot, "TXT">>
    /\ last.arg[1].content = <<"a", "a">>
    /\ last.arg[2].content = <<"1">>
    /\ last.arg[2].after
    /\ filepath_of(last.arg[1]) = filepath_of(last.arg[2])
    /\ Cardinality(DOMAIN files) = 1
    /\ files[filepath_of(last.arg[2])].data = <<"1">>

\* ------------------------------------------------------------ SpecDraw
\* draw_text_on_image (utils/image_utils.py 175-334) with its placement
\* and decorations: the call's arguments are drawn at the start, the
\* action lays the lines out and records every draw.text call in order.
\* A line's box is the pen position the code gives it and the bbox height
\* the code measured for it.

MaxDrawLen == 3

DrawTexts == BoundedSeq(TextChars, MaxDrawLen)

VAligns == {"top", "middle", "bottom"}

Aligns == {"left", "center", "right"}

BorderWidths == {0, 2}

\* position
origin == <<10, 7>>

\* shadow_offset (the default)
shadow_offset == <<2, 2>>

DrawArgs ==
    [text : DrawTexts, spacing : Spacings, max_width : {<<>>, <<3>>},
     align : Aligns, valign : VAligns, shadow : BOOLEAN,
     border : BOOLEAN, border_width : BorderWidths]

\* Python's floor division by two
floordiv2(n) == n \div 2

\* image_utils.py 285-288
aligned_x(align, x, width) ==
    IF align = "center" THEN x - floordiv2(width)
    ELSE IF align = "right" THEN x - width
    ELSE x

\* the block centred with the half rounded up
aligned_y_round_up(valign, y, height) ==
    IF valign = "middle" THEN y - floordiv2(height + 1)
    ELSE IF valign = "bottom" THEN y - height
    ELSE y

\* image_utils.py 291-294
aligned_y(valign, y, height) ==
    IF valign = "middle" THEN y - floordiv2(height)
    ELSE IF valign = "bottom" THEN y - height
    ELSE y

\* image_utils.py 301-311
line_left(align, x, width, line) ==
    IF align = "center" THEN x + floordiv2(width - bbox_width(line))
    ELSE IF align = "right" THEN x + (width - bbox_width(line))
    ELSE x

\* one draw.text call
Stamp(kind, i, pos, line) ==
    [kind |-> kind, line |-> i, pos |-> pos, text |-> line,
     height |-> bbox_height(line)]

\* image_utils.py 321-326: the offsets in the order of the two loops
border_offsets(w) ==
    LET o == <<-w, 0, w>> IN
    SelectSeq([k \in 1..9 |-> <<o[((k - 1) \div 3) + 1],
                                 o[((k - 1) % 3) + 1]>>],
              LAMBDA p : ~(p[1] = 0 /\ p[2] = 0))

\* image_utils.py 313-329: the draw.text calls of one line
line_stamps(a, i, line, left, current_y) ==
    (IF a.shadow
     THEN <<Stamp("shadow", i, <<left + shadow_offset[1],
                                 current_y + shadow_offset[2]>>, line)>>
     ELSE <<>>)
    \o (IF a.border /\ a.border_width > 0
        THEN LET offs == border_offsets(a.border_width) IN
             [k \in 1..Len(offs) |->
                 Stamp("border", i, <<left + offs[k][1],
                                      current_y + offs[k][2]>>, line)]
        ELSE <<>>)
    \o <<Stamp("main", i, <<left, current_y>>, line)>>

\* image_utils.py 297-332: the loop over the lines from line i on
RECURSIVE draw_loop(_, _, _, _, _, _)
draw_loop(a, lines, i, x, width, current_y) ==
    IF i > Len(lines) THEN <<>>
    ELSE line_stamps(a, i, lines[i],
                     line_left(a.align, x, width, lines[i]), current_y)
         \o draw_loop(a, lines, i + 1, x, width,
                      current_y + bbox_height(lines[i]) + a.spacing)

\* image_utils.py 224-334: what a call lays out and draws
draw_text_on_image(a) ==
    LET lines == draw_lines(a.text, a.max_width)
        width == max_line_width(lines)
        height == sum_heights(lines) + (Len(lines) - 1) * a.spacing
        x == aligned_x(a.align, origin[1], width)
        y == aligned_y(a.valign, origin[2], height)
    IN
    IF a.text = <<>>
    THEN [lines |-> <<>>, max_line_width |-> 0, total_height |-> 0,
          stamps |-> <<>>]
    ELSE [lines |-> lines, max_line_width |-> width,
          total_height |-> height,
          stamps |-> draw_loop(a, lines, 1, x, width, y)]

DrawDecorated ==
    /\ last.op = "input"
    /\ LET d == draw_text_on_image(last.arg) IN
       last' = [Call("draw_text_on_image", last.arg) EXCEPT
                   !.ret = <<d.max_line_width, d.total_height>>,
                   !.invoked = d.stamps,
                   !.results = d.lines]
    /\ UNCHANGED <<regVars, fsVars>>

InitDraw ==
    /\ InitRegistry
    /\ dirs = {}
    /\ files = <<>>
    /\ clock = 0
    /\ \E arg \in DrawArgs : last = Call("input", arg)

NextDraw == DrawDecorated

SpecDraw == InitDraw /\ [][NextDraw]_vars

\* ------------------------------------------------------------------- C25
\* the main draw.text calls of the last call, in order
MainStamps == SelectSeq(last.invoked, LAMBDA s : s.kind = "main")

\* the top of the first line's box and the bottom of the last line's box
block_top == MainStamps[1].pos[2]

block_bottom ==
    LET s == MainStamps[Len(MainStamps)] IN s.pos[2] + s.height

\* C25: in draw_text_on_image the lines drawn span, from the top of the
\* first line to the bottom of the last one, total_height = the sum of the
\* line heights plus (n - 1) * line_spacing; the block starts at origin.y
\* for valign 'top', ends at origin.y for 'bottom', and for 'middle' is
\* centred on origin.y, the part below being at most one pixel longer than
\* the part above.
C25_VerticalPlacement ==
    (last.op = "draw_text_on_image" /\ last.results # <<>>) =>
        LET n == Len(last.results)
            height == sum_heights(last.results)
                          + (n - 1) * last.arg.spacing
        IN
        /\ Len(MainStamps) = n
        /\ last.ret[2] = height
        /\ block_bottom - block_top = height
        /\ last.arg.valign = "top" => block_top = origin[2]
        /\ last.arg.valign = "bottom" => block_bottom = origin[2]
        /\ last.arg.valign = "middle" =>
               (block_bottom - origin[2]) - (origin[2] - block_top)
                   \in {0, 1}

\* a middle-aligned block of three lines of odd total height
C25_Witness ==
    /\ last.op = "draw_text_on_image"
    /\ last.arg.valign = "middle"
    /\ Len(last.results) = 3
    /\ last.arg.spacing = 4
    /\ last.ret[2] % 2 = 1
    /\ block_top < origin[2]
    /\ block_bottom > origin[2]

\* ------------------------------------------------------------------- C26
\* the position of a kind of draw.text call in the back-to-front order
layer(kind) ==
    CASE kind = "shadow" -> 1
      [] kind = "border" -> 2
      [] OTHER -> 3

\* the offsets of the border stamps of line i from its main stamp
border_offsets_of(i) ==
    LET main == CHOOSE k \in 1..Len(last.invoked) :
                    /\ last.invoked[k].kind = "main"
                    /\ last.invoked[k].line = i
    IN
    {<<last.invoked[k].pos[1] - last.invoked[main].pos[1],
       last.invoked[k].pos[2] - last.invoked[main].pos[2]>> :
        k \in {j \in 1..Len(last.invoked) :
                  /\ last.invoked[j].kind = "border"
                  /\ last.invoked[j].line = i}}

\* C26: in a draw_text_on_image call with shadow and border enabled the
\* decorations are layered back-to-front over the whole text block: every
\* shadow stamp is drawn before every border stamp and every border stamp
\* before any main glyph pass, and each line has exactly eight border
\* stamps, one for each offset in {-w, 0, w} x {-w, 0, w} except (0, 0).
C26_BackToFront ==
    (/\ last.op = "draw_text_on_image"
     /\ last.arg.shadow
     /\ last.arg.border
     /\ last.arg.border_width > 0) =>
        LET w == last.arg.border_width
            stamps == last.invoked
        IN
        /\ \A j \in 1..Len(stamps) : \A k \in 1..Len(stamps) :
               j < k => layer(stamps[j].kind) <= layer(stamps[k].kind)
        /\ \A i \in 1..Len(last.results) :
               /\ Cardinality({k \in 1..Len(stamps) :
                                  /\ stamps[k].kind = "border"
                                  /\ stamps[k].line = i}) = 8
               /\ border_offsets_of(i) =
                      ({-w, 0, w} \X {-w, 0, w}) \ {<<0, 0>>}

\* ------------------------------------------------------------- SpecJpg
\* JpgGenerator.generate (generators/image/jpg_generator.py 36-260): the
\* call's arguments are drawn at the start.  generate is a classmethod
\* whose first parameter is cls; the defaults of its options are read
\* through the name self (lines 86-117), which is bound nowhere in the
\* method or the module.

\* size: not given, or a requested width and height
JpgSizes == {<<>>, <<(<<300, 200>>)>>}

Paddings == {0, 40}

JpgArgs ==
    [content : DrawTexts, output_dir : {"out/sub"}, size : JpgSizes,
     padding : Paddings, spacing : Spacings, max_width : {<<>>, <<3>>},
     auto_resize : BOOLEAN]

\* jpg_generator.py 108-120: the requested canvas; FONT_SIZES["small"]
\* for a content of at most 50 characters
requested_size(a) == IF a.size = <<>> THEN <<100, 36>> ELSE a.size[1]

\* jpg_generator.py 123-124: int(width * 0.8)
measure_max_width(a) ==
    IF a.max_width = <<>> /\ a.auto_resize
    THEN <<(requested_size(a)[1] * 8) \div 10>>
    ELSE a.max_width

\* jpg_generator.py 146-202: the lines get_text_dimensions measures
measured_lines(text, max_width) == draw_lines(text, max_width)

\* jpg_generator.py 146-202
get_text_dimensions(text, max_width, line_spacing) ==
    IF text = <<>> THEN <<0, 0>>
    ELSE LET lines == measured_lines(text, max_width) IN
         <<max_line_width(lines),
           sum_heights(lines) + (Len(lines) - 1) * line_spacing>>

\* jpg_generator.py 78-86: the statements generate executes
generate_jpg(a) ==
    IF a.content = <<>>
    THEN [raised |-> TRUE, ret |-> "ValueError", dirs |-> {}]
    ELSE [raised |-> TRUE, ret |-> "NameError",
          dirs |-> WithParents(a.output_dir)]

JpgGenerate ==
    LET a == last.arg
        done == generate_jpg(a)
    IN
    /\ last.op = "input"
    /\ dirs' = dirs \cup done.dirs
    /\ last' = [Call("JpgGenerator.generate", a) EXCEPT
                   !.raised = done.raised,
                   !.ret = done.ret]
    /\ UNCHANGED <<regVars, files, clock>>

InitJpg ==
    /\ InitRegistry
    /\ dirs = {}
    /\ files = <<>>
    /\ clock = 0
    /\ \E arg \in JpgArgs : last = Call("input", arg)

NextJpg == JpgGenerate

SpecJpg == InitJpg /\ [][NextJpg]_vars

\* ------------------------------------------------------------------- C27
\* the measured text block of the last call
measured ==
    get_text_dimensions(last.arg.content, measure_max_width(last.arg),
                        last.arg.spacing)

\* C27: a JpgGenerator.generate call with auto_resize enabled ends with a
\* canvas that is at least text_width + 2 * padding wide and at least
\* text_height + 2 * padding high, never below the 100 x 50 minimum and
\* never smaller in either dimension than the requested size; when the
\* requested size already covers the padded block and the minimum, the
\* size is the requested one.
C27_AutoResize ==
    (/\ last.op = "JpgGenerator.generate"
     /\ last.arg.content # <<>>
     /\ last.arg.auto_resize) =>
        /\ ~last.raised
        /\ LET size == last.ret
               req == requested_size(last.arg)
               padding == last.arg.padding
           IN
           /\ size[1] >= measured[1] + 2 * padding
           /\ size[2] >= measured[2] + 2 * padding
           /\ size[1] >= 100 /\ size[2] >= 50
           /\ size[1] >= req[1] /\ size[2] >= req[2]
           /\ (/\ req[1] >= measured[1] + 2 * padding
               /\ req[2] >= measured[2] + 2 * padding
               /\ req[1] >= 100 /\ req[2] >= 50) => size = req

\* ------------------------------------------------------------------- C30
\* C30: in a JpgGenerator.generate call the lines that draw_text_on_image
\* draws are the lines that were measured, so the drawn block has the
\* measured width and height and fits the canvas with its padding.
C30_MeasuredIsDrawn ==
    (/\ last.op = "JpgGenerator.generate"
     /\ last.arg.content # <<>>) =>
        /\ ~last.raised
        /\ last.results =
               measured_lines(last.arg.content,
                              measure_max_width(last.arg))
        /\ max_line_width(last.results) = measured[1]
        /\ sum_heights(last.results)
               + (Len(last.results) - 1) * last.arg.spacing = measured[2]
        /\ last.arg.auto_resize =>
               /\ last.ret[1] >= measured[1] + 2 * last.arg.padding
               /\ last.ret[2] >= measured[2] + 2 * last.arg.padding

\* ------------------------------------------------------------------- C28
\* C28: in every state each registry's set of supported extensions is the
\* key set of its generator map: an identifier is listed in
\* SUPPORTED_EXTENSIONS exactly when get_generator of
\* generators/__init__.py returns a generator for it, and it is returned by
\* get_supported_extensions exactly when get_generator of registration.py
\* returns a generator for it.
C28_SupportedIsKeySet ==
    /\ SUPPORTED_EXTENSIONS = DOMAIN generators
    /\ get_supported_extensions = DOMAIN registry_generators
    /\ \A y \in Ids \cup SUPPORTED_EXTENSIONS \cup get_supported_extensions :
           /\ y \in SUPPORTED_EXTENSIONS
                  <=> (ext_lower(y) = y /\ get_generator(generators, y) # None)
           /\ y \in get_supported_extensions
                  <=> (/\ registry_ext(y) = y
                       /\ registry_get_generator(registry_generators, y)
                              # None)

\* both registries have taken a registration, each of an identifier that
\* was not registered before
C28_Witness ==
    /\ Len(hist) = 2
    /\ hist[1].registry # hist[2].registry
    /\ SUPPORTED_EXTENSIONS # DOMAIN InitGenerators
    /\ get_supported_extensions # {}
    /\ \E y \in get_supported_extensions : y \notin SUPPORTED_EXTENSIONS

\* ------------------------------------------------------------------- C29
\* a line of a single word: no space in it
single_word(line) == ~Contains(line, " ")

\* the output lines `out` are, input line by input line, the input lines
\* `in` cut between words: a blank input line takes one output line; an
\* input line with a visible character takes the k output lines that,
\* joined by single spaces, are the input line, k being at most its number
\* of words.  When wrapping is on, each of the k lines is no wider than
\* max_width or is a single word, and a first word wider than max_width
\* is the first of the k lines.
RECURSIVE wrapped_from(_, _, _)
wrapped_from(in, out, max_width) ==
    IF in = <<>> THEN out = <<>>
    ELSE IF strip(Head(in)) = <<>>
    THEN out # <<>> /\ wrapped_from(Tail(in), Tail(out), max_width)
    ELSE \E k \in 1..Len(out) :
            /\ join(SubSeq(out, 1, k)) = Head(in)
            /\ k <= Len(split(Head(in), " "))
            /\ truthy(max_width) =>
                   /\ \A j \in 1..k :
                          \/ getlength(out[j]) <= max_width[1]
                          \/ single_word(out[j])
                   /\ getlength(first_word(Head(in))) > max_width[1]
                          => out[1] = first_word(Head(in))
            /\ wrapped_from(Tail(in), SubSeq(out, k + 1, Len(out)),
                            max_width)

====
